---- MODULE Spec2Model ----
(***************************************************************************)
(* A model of the pull-request dashboard: the refresh route                *)
(* (src/src/app/api/refresh/route.ts, GET), which reads the repositories,  *)
(* open pull requests and reviews of an organization from the GitHub REST  *)
(* API and upserts one record per non-draft pull request into Firestore,   *)
(* and the page (src/src/app/page.tsx, Home), which triggers the route and *)
(* re-reads the collection.                                                *)
(*                                                                         *)
(* Every await of the route is a yield point: one action per awaited       *)
(* response, holding all the synchronous code that runs when the response  *)
(* arrives, up to the next await.  GitHub and Firestore are the            *)
(* environment: each response is drawn from the outcomes fetch, json() and *)
(* setDoc can produce.                                                     *)
(***************************************************************************)
EXTENDS Integers, Sequences, FiniteSets, TLC

(***************************************************************************)
(* Bounds of the model.                                                    *)
(***************************************************************************)
\* number of refresh invocations (each may overlap the others)
MaxRuns == 2
\* repositories of the organization in the wide inputs
MaxRepos == 2
\* open pull requests of the organization in the wide inputs
MaxPulls == 3
\* open pull requests in the inputs of the overlapping invocations
MaxOpen == 2
\* reviews per pull request in the wide inputs
MaxReviews == 3
\* upstream changes (a review added, a draft toggled, a pull request closed)
MaxChanges == 1
\* largest pull request number in the inputs of the id derivation
MaxPrNumber == 11

Runs == 1 .. MaxRuns

(***************************************************************************)
(* Program constants and the upstream's vocabulary.                        *)
(***************************************************************************)
GITHUB_ORG == "acme"

\* Repository names, listed in the order the repository list returns them
\* (and in lexicographic order, which DocOrder relies on).
RepoNames == <<"api", "docs", "web">>

Names == {RepoNames[i] : i \in 1 .. Len(RepoNames)}

\* The review states GitHub reports, and a lower-case variant that the exact
\* comparison of the route must not count.
ReviewStates == {"APPROVED", "COMMENTED", "CHANGES_REQUESTED", "approved"}

Login == "octocat"

UpdatedAt == "2024-05-01T10:00:00Z"

(***************************************************************************)
(* Sequences helpers.                                                      *)
(***************************************************************************)
SeqsUpTo(S, n) == UNION {[1 .. k -> S] : k \in 0 .. n}

Range(s) == {s[i] : i \in 1 .. Len(s)}

EmptyCol == [i \in {} |-> i]

Put(f, k, v) == [i \in DOMAIN f \cup {k} |-> IF i = k THEN v ELSE f[i]]

(***************************************************************************)
(* The upstream: what GitHub holds.  A pull request carries its reviews;   *)
(* a closed pull request keeps them but leaves the open list.              *)
(***************************************************************************)
PullOf(n, d, rv) ==
  [number |-> n, title |-> "PR " \o ToString(n), draft |-> d, open |-> TRUE, reviews |-> rv]

\* The pull lists of one repository with n open pull requests, newest first,
\* as the pulls endpoint lists them.
PullLists(n, lists) ==
  { [i \in 1 .. n |-> PullOf(n + 1 - i, c[i].draft, c[i].reviews)] :
      c \in [1 .. n -> [draft : BOOLEAN, reviews : lists]] }

\* The pull lists of k repositories that hold at most budget pull requests
\* together.
RECURSIVE PullAssignments(_, _, _)
PullAssignments(k, budget, lists) ==
  IF k = 0 THEN {<<>>}
  ELSE UNION { { Append(rest, pl) :
                   rest \in PullAssignments(k - 1, budget - n, lists),
                   pl \in PullLists(n, lists) } :
               n \in 0 .. budget }

RepoIndex(nm) == CHOOSE i \in 1 .. Len(RepoNames) : RepoNames[i] = nm

Worlds(maxRepos, maxPulls, lists) ==
  UNION { { [repos |-> SubSeq(RepoNames, 1, k),
             pulls |-> [nm \in Names |-> IF RepoIndex(nm) <= k THEN a[RepoIndex(nm)] ELSE <<>>]] :
              a \in PullAssignments(k, maxPulls, lists) } :
          k \in 0 .. maxRepos }

\* Wide review lists on one pull request; short review lists on the full
\* repository structure.
ShortLists == {<<>>, <<"APPROVED">>}

WideWorlds ==
  Worlds(1, 1, SeqsUpTo(ReviewStates, MaxReviews)) \cup Worlds(MaxRepos, MaxPulls, ShortLists)

\* The inputs of the concurrent specification: one repository.
NarrowWorlds == Worlds(1, MaxOpen, ShortLists)

\* The inputs of the id derivation: repository names of which one extends
\* another by a digit, or by a hyphen and a digit, and pull request numbers
\* of one and of two digits.
IdRepoNames == <<"web", "web-1", "web1">>

IdNames == {IdRepoNames[i] : i \in 1 .. Len(IdRepoNames)}

\* A pull request of the organization: <<repository name, number>>.
IdPairs == IdNames \X (1 .. MaxPrNumber)

\* The numbers of S, largest first: the pulls endpoint lists newest first.
RECURSIVE Descending(_)
Descending(S) ==
  IF S = {} THEN <<>>
  ELSE LET m == CHOOSE x \in S : \A y \in S : y <= x
       IN  <<m>> \o Descending(S \ {m})

\* The organization whose open pull requests are exactly the pairs of S,
\* none a draft, none reviewed.
IdWorldOf(S) ==
  [repos |-> SelectSeq(IdRepoNames, LAMBDA nm : \E p \in S : p[1] = nm),
   pulls |-> [nm \in IdNames |->
                LET ns == Descending({p[2] : p \in {q \in S : q[1] = nm}})
                IN  [i \in 1 .. Len(ns) |-> PullOf(ns[i], FALSE, <<>>)]]]

\* Every organization that holds one or two pull requests.
IdWorlds == {IdWorldOf({p, q}) : p \in IdPairs, q \in IdPairs}

(***************************************************************************)
(* The three source API endpoints, as GitHub answers them.                 *)
(***************************************************************************)
\* GET /orgs/{org}/repos
ApiRepos(g) == [i \in 1 .. Len(g.repos) |-> [name |-> g.repos[i]]]

ApiPull(nm, p, withUser) ==
  [number |-> p.number, title |-> p.title, draft |-> p.draft,
   html_url |-> "https://github.com/" \o GITHUB_ORG \o "/" \o nm \o "/pull/" \o ToString(p.number),
   updated_at |-> UpdatedAt,
   user |-> IF withUser THEN <<[login |-> Login]>> ELSE <<>>]

IsOpen(p) == p.open

\* GET /repos/{org}/{repo}/pulls?state=open&per_page=20
ApiPulls(g, nm, withUser) ==
  LET open == SelectSeq(g.pulls[nm], IsOpen)
  IN  [i \in 1 .. Len(open) |-> ApiPull(nm, open[i], withUser)]

\* GET /repos/{org}/{repo}/pulls/{number}/reviews
ApiReviews(g, nm, n) ==
  LET hit == SelectSeq(g.pulls[nm], LAMBDA p : p.number = n)
  IN  IF hit = <<>> THEN <<>>
      ELSE [i \in 1 .. Len(hit[1].reviews) |-> [state |-> hit[1].reviews[i]]]

(***************************************************************************)
(* What one awaited fetch + json() can produce.  fetch rejects only on a   *)
(* network failure; the status of the response is never read by the route; *)
(* json() throws on a body that is not JSON.                               *)
(***************************************************************************)
BodyKinds == {"list", "object", "null", "garbage"}

Outcomes ==
  [rejected : {TRUE}, ok : {FALSE}, body : {"garbage"}]
    \cup [rejected : {FALSE}, ok : BOOLEAN, body : BodyKinds]

\* The pull list may also arrive with entries that lack user.
PullOutcomes == Outcomes \cup [rejected : {FALSE}, ok : {TRUE}, body : {"nouser"}]

\* The ways a call has failed, as the specification counts them: a network
\* failure, a non-success response, a payload that is not JSON, not a list, or
\* lacks a field.  An absent pull list is not counted: the route treats it as
\* no pull requests.
CallFailures(o, absentOk) ==
  (IF o.rejected THEN {"network error"} ELSE {})
    \cup (IF ~o.rejected /\ ~o.ok THEN {"non-success response"} ELSE {})
    \cup (IF ~o.rejected /\ (o.body \in {"garbage", "object", "nouser"}
                             \/ (o.body = "null" /\ ~absentOk))
          THEN {"malformed payload"} ELSE {})

(***************************************************************************)
(* The route's pure parts.                                                 *)
(***************************************************************************)
\* An id derived without the separator.
MakeIdNoSeparator(nm, n) == nm \o ToString(n)

\* id: `${repo.name}-${pr.number}`
MakeId(nm, n) == nm \o "-" \o ToString(n)

IsDraft(p) == p.draft

NotDraft(p) == ~p.draft

FilterNothing(pulls) == pulls

\* pulls.filter((p) => !p.draft)
FilterPulls(pulls) == SelectSeq(pulls, NotDraft)

IsApprovedAnyCase(rv) == rv.state \in {"APPROVED", "approved"}

\* r.state === "APPROVED"
IsApproved(rv) == rv.state = "APPROVED"

\* reviews.filter((r) => r.state === "APPROVED").length
ApprovalCount(reviews) == Len(SelectSeq(reviews, IsApproved))

\* The record pushed to allPRs.
MakeRecord(nm, pr, approvalCount) ==
  [id |-> MakeId(nm, pr.number),
   title |-> pr.title,
   repo |-> GITHUB_ORG \o "/" \o nm,
   author |-> pr.user[1].login,
   url |-> pr.html_url,
   updated_at |-> pr.updated_at,
   approvals |-> approvalCount]

\* (a, b) => (a.approvals || 0) - (b.approvals || 0)
Compare(a, b) == a.approvals - b.approvals

RECURSIVE InsertUnstable(_, _)
InsertUnstable(s, x) ==
  IF s = <<>> THEN <<x>>
  ELSE IF Compare(s[Len(s)], x) < 0 THEN Append(s, x)
  ELSE Append(InsertUnstable(SubSeq(s, 1, Len(s) - 1), x), s[Len(s)])

\* x goes behind every element that does not compare greater: equal elements
\* keep their order.
RECURSIVE Insert(_, _)
Insert(s, x) ==
  IF s = <<>> THEN <<x>>
  ELSE IF Compare(s[Len(s)], x) <= 0 THEN Append(s, x)
  ELSE Append(Insert(SubSeq(s, 1, Len(s) - 1), x), s[Len(s)])

RECURSIVE SortUnstable(_)
SortUnstable(s) ==
  IF s = <<>> THEN <<>>
  ELSE InsertUnstable(SortUnstable(SubSeq(s, 1, Len(s) - 1)), s[Len(s)])

\* allPRs.sort(...): Array.prototype.sort is stable.
RECURSIVE SortByApprovals(_)
SortByApprovals(s) ==
  IF s = <<>> THEN <<>>
  ELSE Insert(SortByApprovals(SubSeq(s, 1, Len(s) - 1)), s[Len(s)])

(***************************************************************************)
(* Firestore.                                                              *)
(***************************************************************************)
MergeAdding(old, new) ==
  [f \in DOMAIN old \cup DOMAIN new |->
     IF f \in DOMAIN new
     THEN (IF f = "approvals" /\ f \in DOMAIN old THEN old[f] + new[f] ELSE new[f])
     ELSE old[f]]

\* merge: the fields of the new data overwrite, the other fields survive.
Merge(old, new) ==
  [f \in DOMAIN old \cup DOMAIN new |-> IF f \in DOMAIN new THEN new[f] ELSE old[f]]

SetDocReplacingAll(col, id, data) == [i \in {id} |-> data]

SetDocIfAbsent(col, id, data) ==
  [i \in DOMAIN col \cup {id} |-> IF i \in DOMAIN col THEN col[i] ELSE data]

\* setDoc(doc(col, id), data, { merge: true }), once applied.
SetDoc(col, id, data) ==
  [i \in DOMAIN col \cup {id} |->
     IF i = id THEN (IF id \in DOMAIN col THEN Merge(col[id], data) ELSE data)
     ELSE col[i]]

(***************************************************************************)
(* State.                                                                  *)
(***************************************************************************)
VARIABLES
  gh,        \* what GitHub holds
  changes,   \* upstream changes so far
  store,     \* Firestore collection "prs": document id -> document
  meta,      \* Firestore collection "metadata": "system" -> document
  clock,     \* new Date(): advances with every reading
  pc,        \* per invocation of GET: the await it is suspended at
  repos,     \* per invocation: repos
  ri,        \* per invocation: index of the repository of the outer loop
  todo,      \* per invocation: what is left of pulls.filter(...) in the inner loop
  allPRs,    \* per invocation: allPRs
  writes,    \* per invocation: the setDoc promises of the batch, one per record
  metaW,     \* per invocation: the data of the metadata setDoc
  resp,      \* per invocation: the response returned
  calls,     \* history: the review-list requests issued, <<repository, number>>
  drafts,    \* history: the pull requests a pull list returned with draft true
  srcFail,   \* history: the ways source API calls of the invocation have failed
  fetched,   \* history: per invocation, the review list fetched for each record id
  lastBy,    \* history: per document, the invocation whose write was applied last
  clean,     \* history: the invocation ran alone, on an unchanged upstream, answered in full
  base,      \* history: per invocation, snap as it started
  snap,      \* history: what the latest clean successful invocation left, until the next starts
  cpc,       \* the page: the await it is suspended at
  prs,       \* the page: prs, the list displayed
  loading,   \* the page: loading
  lastRefresh, \* the page: lastRefresh (0: null)
  crun,      \* the page: the invocation its refresh request started (0: none)
  prsBefore  \* history: prs as handleRefresh found it

runVars == <<pc, repos, ri, todo, allPRs, writes, metaW, resp>>

histVars == <<calls, drafts, srcFail, fetched, lastBy>>

idemVars == <<clean, base, snap>>

pageVars == <<cpc, prs, loading, lastRefresh, crun, prsBefore>>

vars == <<gh, changes, store, meta, clock, runVars, histVars, idemVars, pageVars>>

NoResp == [sent |-> FALSE, success |-> FALSE, status |-> 0, count |-> 0]

\* NextResponse.json({ success: false, error }, { status: 500 })
Failure == [sent |-> TRUE, success |-> FALSE, status |-> 500, count |-> 0]

\* NextResponse.json({ success: true, count })
Success(n) == [sent |-> TRUE, success |-> TRUE, status |-> 200, count |-> n]

NoMeta == [lastRefresh |-> 0, lastRefreshCount |-> 0]

NoSnap == [valid |-> FALSE, store |-> EmptyCol, records |-> <<>>]

InitWith(worlds) ==
  /\ gh \in worlds
  /\ changes = 0
  /\ store = EmptyCol
  /\ meta = EmptyCol
  /\ clock = 1
  /\ pc = [r \in Runs |-> "idle"]
  /\ repos = [r \in Runs |-> <<>>]
  /\ ri = [r \in Runs |-> 0]
  /\ todo = [r \in Runs |-> <<>>]
  /\ allPRs = [r \in Runs |-> <<>>]
  /\ writes = [r \in Runs |-> <<>>]
  /\ metaW = [r \in Runs |-> NoMeta]
  /\ resp = [r \in Runs |-> NoResp]
  /\ calls = [r \in Runs |-> {}]
  /\ drafts = [r \in Runs |-> {}]
  /\ srcFail = [r \in Runs |-> {}]
  /\ fetched = [r \in Runs |-> EmptyCol]
  /\ lastBy = EmptyCol
  /\ clean = [r \in Runs |-> FALSE]
  /\ base = [r \in Runs |-> NoSnap]
  /\ snap = NoSnap
  /\ cpc = "mount"
  /\ prs = <<>>
  /\ loading = FALSE
  /\ lastRefresh = 0
  /\ crun = 0
  /\ prsBefore = <<>>

(***************************************************************************)
(* GET, src/src/app/api/refresh/route.ts.                                  *)
(***************************************************************************)
\* catch (error): the failure response.
Catch(r) ==
  /\ pc' = [pc EXCEPT ![r] = "done"]
  /\ resp' = [resp EXCEPT ![r] = Failure]

IssueMetaCountingStore(r, n) ==
  /\ metaW' = [metaW EXCEPT ![r] =
                 [lastRefresh |-> clock, lastRefreshCount |-> Cardinality(DOMAIN store)]]
  /\ clock' = clock + 1

\* Step 5 issued: the metadata setDoc, with the time read as it is called.
IssueMeta(r, n) ==
  /\ metaW' = [metaW EXCEPT ![r] = [lastRefresh |-> clock, lastRefreshCount |-> n]]
  /\ clock' = clock + 1

\* Promise.all over the batch is fulfilled.
AllApplied(w) == \A k \in 1 .. Len(w) : w[k] = "applied"

AnyApplied(w) == w # <<>> => \E k \in 1 .. Len(w) : w[k] = "applied"

BatchDone(w) == AllApplied(w)

\* The loops from the point reached: the next reviews fetch of the inner
\* loop, else the next pulls fetch of the outer loop, else steps 3 and 4 (the
\* sort and the batch of setDoc calls), and step 5 at once when the batch
\* is empty.
Advance(r, rp, i, td, acc) ==
  /\ repos' = [repos EXCEPT ![r] = rp]
  /\ IF td # <<>>
     THEN /\ pc' = [pc EXCEPT ![r] = "reviews"]
          /\ ri' = [ri EXCEPT ![r] = i]
          /\ todo' = [todo EXCEPT ![r] = td]
          /\ allPRs' = [allPRs EXCEPT ![r] = acc]
          /\ calls' = [calls EXCEPT ![r] = @ \cup {<<rp[i].name, td[1].number>>}]
          /\ UNCHANGED <<writes, metaW, clock>>
     ELSE IF i < Len(rp)
     THEN /\ pc' = [pc EXCEPT ![r] = "pulls"]
          /\ ri' = [ri EXCEPT ![r] = i + 1]
          /\ todo' = [todo EXCEPT ![r] = <<>>]
          /\ allPRs' = [allPRs EXCEPT ![r] = acc]
          /\ UNCHANGED <<calls, writes, metaW, clock>>
     ELSE LET sorted == SortByApprovals(acc)
          IN  /\ ri' = [ri EXCEPT ![r] = i]
              /\ todo' = [todo EXCEPT ![r] = <<>>]
              /\ allPRs' = [allPRs EXCEPT ![r] = sorted]
              /\ writes' = [writes EXCEPT ![r] = [k \in 1 .. Len(sorted) |-> "pending"]]
              /\ UNCHANGED calls
              /\ IF BatchDone(writes'[r])
                 THEN /\ pc' = [pc EXCEPT ![r] = "meta"]
                      /\ IssueMeta(r, Len(sorted))
                 ELSE /\ pc' = [pc EXCEPT ![r] = "writing"]
                      /\ UNCHANGED <<metaW, clock>>

\* No other invocation is under way or has a write in flight.
Quiet(r) ==
  \A q \in Runs \ {r} :
    /\ pc[q] \in {"idle", "done"}
    /\ \A k \in 1 .. Len(writes[q]) : writes[q][k] # "pending"

\* GET is invoked: step 1, the repository list is requested.
Invoke(r) ==
  /\ pc[r] = "idle"
  /\ pc' = [pc EXCEPT ![r] = "repos"]
  /\ clean' = [q \in Runs |-> q = r /\ Quiet(r)]
  /\ base' = [base EXCEPT ![r] = snap]
  /\ snap' = NoSnap
  /\ UNCHANGED <<gh, changes, store, meta, clock, repos, ri, todo, allPRs,
                 writes, metaW, resp, histVars>>

\* The route is requested by some client other than the page.
Start(r) ==
  /\ Invoke(r)
  /\ UNCHANGED pageVars

\* await fetch(.../repos) and reposRes.json() settle; for (const repo of repos)
\* throws on what is not iterable.
ReposResponse(r, o) ==
  /\ pc[r] = "repos"
  /\ srcFail' = [srcFail EXCEPT ![r] = @ \cup CallFailures(o, FALSE)]
  /\ IF o.rejected \/ o.body # "list"
     THEN /\ Catch(r)
          /\ UNCHANGED <<repos, ri, todo, allPRs, writes, metaW, clock, calls>>
     ELSE /\ resp' = resp
          /\ Advance(r, ApiRepos(gh), 0, <<>>, <<>>)
  /\ clean' = [clean EXCEPT ![r] = @ /\ o.body = "list"]
  /\ UNCHANGED <<gh, changes, store, meta, drafts, fetched, lastBy, base, snap, pageVars>>

\* await fetch(.../pulls) and pullsRes.json() settle; an absent or empty list
\* continues the outer loop; pulls.filter throws on what is not an array.
PullsResponse(r, o) ==
  /\ pc[r] = "pulls"
  /\ o.body = "nouser" => ApiPulls(gh, repos[r][ri[r]].name, FALSE) # <<>>
  /\ srcFail' = [srcFail EXCEPT ![r] = @ \cup CallFailures(o, TRUE)]
  /\ LET nm == repos[r][ri[r]].name
         pulls == IF o.body \in {"list", "nouser"}
                  THEN ApiPulls(gh, nm, o.body = "list") ELSE <<>>
     IN  IF o.rejected \/ o.body \in {"garbage", "object"}
         THEN /\ Catch(r)
              /\ UNCHANGED <<repos, ri, todo, allPRs, writes, metaW, clock, calls, drafts>>
         ELSE /\ resp' = resp
              /\ drafts' = [drafts EXCEPT ![r] =
                              @ \cup {<<nm, p.number>> : p \in Range(SelectSeq(pulls, IsDraft))}]
              /\ Advance(r, repos[r], ri[r], FilterPulls(pulls), allPRs[r])
  /\ clean' = [clean EXCEPT ![r] = @ /\ o.body = "list"]
  /\ UNCHANGED <<gh, changes, store, meta, fetched, lastBy, base, snap, pageVars>>

\* await fetch(.../reviews) and reviewsRes.json() settle; reviews.filter
\* throws on what is not an array, pr.user.login on a missing user; else the
\* record is pushed.
ReviewsResponse(r, o) ==
  /\ pc[r] = "reviews"
  /\ srcFail' = [srcFail EXCEPT ![r] = @ \cup CallFailures(o, FALSE)]
  /\ LET nm == repos[r][ri[r]].name
         pr == todo[r][1]
         reviews == ApiReviews(gh, nm, pr.number)
     IN  IF o.rejected \/ o.body # "list" \/ pr.user = <<>>
         THEN /\ Catch(r)
              /\ UNCHANGED <<repos, ri, todo, allPRs, writes, metaW, clock, calls, fetched>>
         ELSE /\ resp' = resp
              /\ fetched' = [fetched EXCEPT ![r] = Put(@, MakeId(nm, pr.number), reviews)]
              /\ Advance(r, repos[r], ri[r], Tail(todo[r]),
                         Append(allPRs[r], MakeRecord(nm, pr, ApprovalCount(reviews))))
  /\ clean' = [clean EXCEPT ![r] = @ /\ o.body = "list"]
  /\ UNCHANGED <<gh, changes, store, meta, drafts, lastBy, base, snap, pageVars>>

\* One setDoc of the batch is applied and its promise fulfilled; when it
\* fulfils Promise.all, step 5 is issued.
WriteApplied(r, k) ==
  /\ k \in 1 .. Len(writes[r])
  /\ writes[r][k] = "pending"
  /\ store' = SetDoc(store, allPRs[r][k].id, allPRs[r][k])
  /\ lastBy' = Put(lastBy, allPRs[r][k].id, r)
  /\ writes' = [writes EXCEPT ![r][k] = "applied"]
  /\ IF pc[r] = "writing" /\ BatchDone(writes'[r])
     THEN /\ pc' = [pc EXCEPT ![r] = "meta"]
          /\ IssueMeta(r, Len(allPRs[r]))
     ELSE UNCHANGED <<pc, metaW, clock>>
  /\ UNCHANGED <<gh, changes, meta, repos, ri, todo, allPRs, resp,
                 calls, drafts, srcFail, fetched, idemVars, pageVars>>

\* One setDoc of the batch is rejected: Promise.all rejects on the first
\* rejection; the other writes stay in flight.
WriteRejected(r, k) ==
  /\ k \in 1 .. Len(writes[r])
  /\ writes[r][k] = "pending"
  /\ writes' = [writes EXCEPT ![r][k] = "rejected"]
  /\ IF pc[r] = "writing" THEN Catch(r) ELSE UNCHANGED <<pc, resp>>
  /\ UNCHANGED <<gh, changes, store, meta, clock, repos, ri, todo, allPRs,
                 metaW, histVars, idemVars, pageVars>>

\* The metadata setDoc is applied: the success response.
MetaApplied(r) ==
  /\ pc[r] = "meta"
  /\ meta' = SetDoc(meta, "system", metaW[r])
  /\ lastBy' = Put(lastBy, "system", r)
  /\ pc' = [pc EXCEPT ![r] = "done"]
  /\ resp' = [resp EXCEPT ![r] = Success(Len(allPRs[r]))]
  /\ snap' = [valid |-> clean[r], store |-> store, records |-> allPRs[r]]
  /\ UNCHANGED <<gh, changes, store, clock, repos, ri, todo, allPRs, writes,
                 metaW, calls, drafts, srcFail, fetched, clean, base, pageVars>>

\* The metadata setDoc is rejected.
MetaRejected(r) ==
  /\ pc[r] = "meta"
  /\ Catch(r)
  /\ UNCHANGED <<gh, changes, store, meta, clock, repos, ri, todo, allPRs,
                 writes, metaW, histVars, idemVars, pageVars>>

(***************************************************************************)
(* The upstream changes under the route: the environment.                  *)
(***************************************************************************)
Changed(nm, i, p) ==
  /\ changes < MaxChanges
  /\ nm \in Names
  /\ i \in 1 .. Len(gh.pulls[nm])
  /\ gh.pulls[nm][i].open
  /\ gh' = [gh EXCEPT !.pulls[nm][i] = p]
  /\ changes' = changes + 1
  /\ clean' = [q \in Runs |-> FALSE]
  /\ snap' = NoSnap
  /\ UNCHANGED <<store, meta, clock, runVars, histVars, base, pageVars>>

\* A reviewer approves a pull request.
GhApprove(nm, i) ==
  /\ i \in 1 .. Len(gh.pulls[nm])
  /\ Len(gh.pulls[nm][i].reviews) < MaxReviews
  /\ Changed(nm, i, [gh.pulls[nm][i] EXCEPT !.reviews = Append(@, "APPROVED")])

\* A pull request is converted to a draft, or marked ready for review.
GhToggleDraft(nm, i) ==
  /\ i \in 1 .. Len(gh.pulls[nm])
  /\ Changed(nm, i, [gh.pulls[nm][i] EXCEPT !.draft = ~@])

\* A pull request is closed or merged.
GhClose(nm, i) ==
  /\ i \in 1 .. Len(gh.pulls[nm])
  /\ Changed(nm, i, [gh.pulls[nm][i] EXCEPT !.open = FALSE])

Upstream ==
  \E nm \in Names, i \in 1 .. MaxPulls :
    \/ GhApprove(nm, i)
    \/ GhToggleDraft(nm, i)
    \/ GhClose(nm, i)

(***************************************************************************)
(* Home, src/src/app/page.tsx.                                             *)
(***************************************************************************)
MaxNumber == MaxPulls

\* The document ids in Firestore's document-name order (numbers are below
\* 10 here, where the order of the decimal strings is that of the numbers).
AllIds ==
  [k \in 1 .. Len(RepoNames) * MaxNumber |->
     MakeId(RepoNames[((k - 1) \div MaxNumber) + 1], ((k - 1) % MaxNumber) + 1)]

IdRank(id) == CHOOSE k \in 1 .. Len(AllIds) : AllIds[k] = id

\* orderBy("approvals", "asc"): by the field, then by document name.
DocBefore(col, i, j) ==
  \/ col[i].approvals < col[j].approvals
  \/ col[i].approvals = col[j].approvals /\ IdRank(i) <= IdRank(j)

\* snapshot.docs.map((doc) => ({ id: doc.id, ...doc.data() })) over the query.
RECURSIVE QueryDocs(_, _)
QueryDocs(col, ids) ==
  IF ids = {} THEN <<>>
  ELSE LET m == CHOOSE i \in ids : \A j \in ids : DocBefore(col, i, j)
       IN  <<Merge([id |-> m], col[m])>> \o QueryDocs(col, ids \ {m})

\* useEffect, or handleRefresh after the route answered: getDocs settles
\* and setPrs runs; fetchLastRefreshFromFirestore is awaited next.
PageRead ==
  /\ cpc \in {"mount", "read"}
  /\ prs' = QueryDocs(store, DOMAIN store)
  /\ cpc' = IF cpc = "mount" THEN "mountMeta" ELSE "readMeta"
  /\ UNCHANGED <<gh, changes, store, meta, clock, runVars, histVars, idemVars,
                 loading, lastRefresh, crun, prsBefore>>

\* getDocs rejects: fetchPrsFromFirestore throws; handleRefresh catches it
\* and its finally clears loading.
PageReadFailed ==
  /\ cpc \in {"mount", "read"}
  /\ cpc' = "idle"
  /\ loading' = FALSE
  /\ UNCHANGED <<gh, changes, store, meta, clock, runVars, histVars, idemVars,
                 prs, lastRefresh, crun, prsBefore>>

\* getDoc of metadata/system settles (a rejection is caught inside and
\* leaves lastRefresh); then handleRefresh's finally clears loading.
PageReadMeta(failed) ==
  /\ cpc \in {"mountMeta", "readMeta"}
  /\ lastRefresh' = IF ~failed /\ "system" \in DOMAIN meta
                    THEN meta["system"].lastRefresh ELSE lastRefresh
  /\ cpc' = "idle"
  /\ loading' = FALSE
  /\ UNCHANGED <<gh, changes, store, meta, clock, runVars, histVars, idemVars,
                 prs, crun, prsBefore>>

\* handleRefresh, clicked once the initial read is over (the button is
\* disabled while loading): fetch("/api/refresh") invokes the route.
HandleRefresh(r) ==
  /\ cpc = "idle"
  /\ ~loading
  /\ Invoke(r)
  /\ loading' = TRUE
  /\ cpc' = "refresh"
  /\ crun' = r
  /\ prsBefore' = prs
  /\ UNCHANGED <<prs, lastRefresh>>

\* await fetch("/api/refresh") resolves with the route's response, whatever
\* its status: the response is not read.
RefreshAnswered ==
  /\ cpc = "refresh"
  /\ resp[crun].sent
  /\ cpc' = "read"
  /\ UNCHANGED <<gh, changes, store, meta, clock, runVars, histVars, idemVars,
                 prs, loading, lastRefresh, crun, prsBefore>>

\* await fetch("/api/refresh") rejects (the route is unreachable or the
\* connection is lost): catch, finally.
RefreshUnreachable ==
  /\ cpc = "refresh"
  /\ cpc' = "idle"
  /\ loading' = FALSE
  /\ UNCHANGED <<gh, changes, store, meta, clock, runVars, histVars, idemVars,
                 prs, lastRefresh, crun, prsBefore>>

Page ==
  \/ PageRead
  \/ PageReadFailed
  \/ \E failed \in BOOLEAN : PageReadMeta(failed)
  \/ \E r \in Runs : HandleRefresh(r)
  \/ RefreshAnswered
  \/ RefreshUnreachable

\* The route at work, once invoked.
Route(r) ==
  \/ \E o \in Outcomes : ReposResponse(r, o)
  \/ \E o \in PullOutcomes : PullsResponse(r, o)
  \/ \E o \in Outcomes : ReviewsResponse(r, o)
  \/ \E k \in 1 .. MaxRepos * MaxPulls : WriteApplied(r, k)
  \/ \E k \in 1 .. MaxRepos * MaxPulls : WriteRejected(r, k)
  \/ MetaApplied(r)
  \/ MetaRejected(r)

(***************************************************************************)
(* Specifications.                                                         *)
(***************************************************************************)
\* Overlapping invocations of the route against one store, the upstream
\* changing under them.
Init == InitWith(NarrowWorlds)

Next ==
  \/ \E r \in Runs : Start(r)
  \/ \E r \in Runs : Route(r)
  \/ Upstream

Spec == Init /\ [][Next]_vars

\* The page and the invocations it starts.
NextPage ==
  \/ Page
  \/ \E r \in Runs : Route(r)

SpecPage == Init /\ [][NextPage]_vars

(***************************************************************************)
(* The aggregation on wide inputs: one invocation, the upstream fixed.     *)
(***************************************************************************)
InitAgg == InitWith(WideWorlds)

NextAgg == Start(1) \/ Route(1)

SpecAgg == InitAgg /\ [][NextAgg]_vars

(***************************************************************************)
(* The id derivation: one invocation over every pair of pull requests.     *)
(***************************************************************************)
InitId == InitWith(IdWorlds)

SpecId == InitId /\ [][NextAgg]_vars

(***************************************************************************)
(* Properties.                                                             *)
(***************************************************************************)
Ids(recs) == {recs[k].id : k \in 1 .. Len(recs)}

Responded(r) == pc[r] = "done"

\* C1: if any source API call of a refresh fails (a network error, a
\* non-success response, a malformed payload), the refresh responds with
\* success false and a non-2xx status, and it has issued no write: neither a
\* record upsert nor the metadata write.
C1_SourceFailureFailsRefresh ==
  \A r \in Runs :
    (Responded(r) /\ srcFail[r] # {}) =>
      /\ ~resp[r].success
      /\ resp[r].status \notin 200 .. 299
      /\ writes[r] = <<>>
      /\ metaW[r] = NoMeta

\* C2: a pull request that a pull list returned with draft true gets no
\* review-list request from that refresh, no record in its allPRs, and no
\* write of that refresh lands on its document.
C2_DraftsSkipped ==
  \A r \in Runs : \A d \in drafts[r] :
    /\ d \notin calls[r]
    /\ MakeId(d[1], d[2]) \notin Ids(allPRs[r])
    /\ MakeId(d[1], d[2]) \in DOMAIN lastBy => lastBy[MakeId(d[1], d[2])] # r

C2_Witness ==
  \E r \in Runs :
    /\ resp[r].success
    /\ drafts[r] # {}
    /\ allPRs[r] # <<>>
    /\ \E d \in drafts[r] : \E c \in calls[r] : c[1] = d[1]

\* C3: the approvals of every record produced equal the number of entries of
\* the review list fetched for it whose state is exactly "APPROVED".
C3_ApprovalsCountExact ==
  \A r \in Runs : \A k \in 1 .. Len(allPRs[r]) :
    LET rec == allPRs[r][k]
    IN  /\ rec.id \in DOMAIN fetched[r]
        /\ rec.approvals =
             Cardinality({i \in 1 .. Len(fetched[r][rec.id]) :
                            fetched[r][rec.id][i].state = "APPROVED"})

\* reviews [APPROVED, COMMENTED, APPROVED] give approvals 2.
C3_Witness ==
  \E r \in Runs : \E k \in 1 .. Len(allPRs[r]) :
    /\ allPRs[r][k].id \in DOMAIN fetched[r]
    /\ fetched[r][allPRs[r][k].id] =
         <<[state |-> "APPROVED"], [state |-> "COMMENTED"], [state |-> "APPROVED"]>>
    /\ allPRs[r][k].approvals = 2

\* The ids of the records in the order the loops meet them: repository list
\* order, then pull list order within a repository.
RECURSIVE EncounterFrom(_, _)
EncounterFrom(g, i) ==
  IF i > Len(g.repos) THEN <<>>
  ELSE LET kept == SelectSeq(g.pulls[g.repos[i]], LAMBDA p : p.open /\ ~p.draft)
       IN  [k \in 1 .. Len(kept) |-> MakeId(g.repos[i], kept[k].number)]
             \o EncounterFrom(g, i + 1)

EncounterPos(id) ==
  LET e == EncounterFrom(gh, 1) IN CHOOSE k \in 1 .. Len(e) : e[k] = id

\* The batch of setDoc calls has been issued from allPRs.
Handed(r) ==
  \/ pc[r] \in {"writing", "meta"}
  \/ pc[r] = "done" /\ (resp[r].success \/ writes[r] # <<>>)

\* C4: the record sequence handed to persistence is non-decreasing in
\* approvals, and records of equal approvals are in encounter order.
C4_SortedStable ==
  \A r \in Runs :
    Handed(r) =>
      \A i, j \in 1 .. Len(allPRs[r]) :
        i < j =>
          /\ allPRs[r][i].approvals <= allPRs[r][j].approvals
          /\ allPRs[r][i].approvals = allPRs[r][j].approvals
               => EncounterPos(allPRs[r][i].id) < EncounterPos(allPRs[r][j].id)

\* A batch with a tie, with a record of 0 approvals and one of more, and
\* with a pair the sort has moved out of encounter order.
C4_Witness ==
  \E r \in Runs :
    /\ Handed(r)
    /\ \E i, j \in 1 .. Len(allPRs[r]) :
         i < j /\ allPRs[r][i].approvals = allPRs[r][j].approvals
    /\ \E i, j \in 1 .. Len(allPRs[r]) :
         /\ i < j
         /\ allPRs[r][i].approvals = 0
         /\ allPRs[r][j].approvals >= 1
         /\ EncounterPos(allPRs[r][i].id) > EncounterPos(allPRs[r][j].id)

MetaIssued(r) == metaW[r] # NoMeta

\* C5: the metadata write is issued only when every record upsert of the run
\* has been applied; a run with a rejected upsert responds failure, and a run
\* responds success only with its batch and the metadata write applied; an
\* upsert that was applied stays in the collection whatever the run's end.
C5_MetaAfterBatchNoRollback ==
  \A r \in Runs :
    /\ MetaIssued(r) => \A k \in 1 .. Len(writes[r]) : writes[r][k] = "applied"
    /\ (\E k \in 1 .. Len(writes[r]) : writes[r][k] = "rejected")
         => Responded(r) /\ ~resp[r].success /\ ~MetaIssued(r)
    /\ resp[r].success
         => /\ MetaIssued(r)
            /\ "system" \in DOMAIN meta
            /\ "system" \in DOMAIN lastBy
    /\ \A k \in 1 .. Len(writes[r]) :
         writes[r][k] = "applied" =>
           /\ allPRs[r][k].id \in DOMAIN store
           /\ lastBy[allPRs[r][k].id] = r => store[allPRs[r][k].id] = allPRs[r][k]

\* A failed run, one upsert of its batch rejected and another applied and
\* still in the collection.
C5_Witness ==
  \E r \in Runs :
    /\ Responded(r)
    /\ ~resp[r].success
    /\ \E k \in 1 .. Len(writes[r]) : writes[r][k] = "rejected"
    /\ \E k \in 1 .. Len(writes[r]) :
         /\ writes[r][k] = "applied"
         /\ lastBy[allPRs[r][k].id] = r
         /\ store[allPRs[r][k].id] = allPRs[r][k]

RecordOf(r, id) == allPRs[r][CHOOSE k \in 1 .. Len(allPRs[r]) : allPRs[r][k].id = id]

\* C6: every document holds the value of the write that was applied to it
\* last, whichever run issued it and whatever the order the runs started in.
C6_LastWriteWins ==
  /\ \A id \in DOMAIN store :
       /\ id \in DOMAIN lastBy
       /\ id \in Ids(allPRs[lastBy[id]])
       /\ store[id] = RecordOf(lastBy[id], id)
  /\ "system" \in DOMAIN meta =>
       /\ "system" \in DOMAIN lastBy
       /\ meta["system"] = metaW[lastBy["system"]]

\* Two runs are over with nothing in flight; a record document holds the
\* values of one, which differ from the other's, and the metadata document
\* holds the other's.
C6_Witness ==
  \E r, q \in Runs :
    /\ r # q
    /\ Responded(r) /\ Responded(q)
    /\ \A w \in Runs : \A k \in 1 .. Len(writes[w]) : writes[w][k] # "pending"
    /\ \E id \in DOMAIN store :
         /\ lastBy[id] = r
         /\ id \in Ids(allPRs[q])
         /\ RecordOf(q, id) # store[id]
    /\ "system" \in DOMAIN meta
    /\ lastBy["system"] = q
    /\ meta["system"] = metaW[q]
    /\ MetaIssued(r)

\* C7: when the refresh the page triggered has failed, the list the page
\* displays once handleRefresh is over is the list it displayed before.
C7_FailedRefreshKeepsList ==
  (cpc = "idle" /\ crun # 0 /\ Responded(crun) /\ ~resp[crun].success)
    => prs = prsBefore

\* C8: no step removes a document from the record collection.
C8_NoRecordDeleted == [][\A id \in DOMAIN store : id \in DOMAIN store']_vars

\* A run wrote a document; a later run that found the pull request a draft
\* or did not find it at all succeeded, and the document is still there.
C8_Witness ==
  \E r, q \in Runs :
    /\ resp[r].success /\ resp[q].success
    /\ metaW[q].lastRefresh < metaW[r].lastRefresh
    /\ \E id \in DOMAIN store :
         /\ lastBy[id] = q
         /\ id \notin Ids(allPRs[r])
    /\ drafts[r] # {} \/ \E nm \in Names : \E i \in 1 .. Len(gh.pulls[nm]) : ~gh.pulls[nm][i].open

\* The step in which run r returns its success response.
Succeeds(r) == pc[r] = "meta" /\ pc'[r] = "done" /\ resp'[r].success

\* C9: a run that follows a successful run at once, both alone at the store
\* and answered in full from an unchanged upstream, produces the records the
\* first produced and leaves the collection as the first left it; and every
\* successful run leaves lastRefreshCount at the number of records it produced.
C9_Idempotent ==
  [][\A r \in Runs :
       Succeeds(r) =>
         /\ meta'["system"].lastRefreshCount = Cardinality(DOMAIN fetched[r])
         /\ (clean[r] /\ base[r].valid) =>
              /\ allPRs[r] = base[r].records
              /\ store' = base[r].store
              /\ meta'["system"].lastRefreshCount = Len(base[r].records)]_vars

\* The second of two such runs has succeeded, with a record of one approval
\* or more.
C9_Witness ==
  \E r \in Runs :
    /\ resp[r].success
    /\ clean[r]
    /\ base[r].valid
    /\ \E k \in 1 .. Len(allPRs[r]) : allPRs[r][k].approvals >= 1
    /\ store = base[r].store

\* C10: a successful refresh returns the number of records it produced as
\* count and writes a metadata document with that lastRefreshCount; with no
\* repository it succeeds with count 0, writes no record document and still
\* writes the metadata document.
C10_CountAndMetadata ==
  \A r \in Runs :
    resp[r].success =>
      /\ resp[r].count = Cardinality(DOMAIN fetched[r])
      /\ metaW[r].lastRefreshCount = resp[r].count
      /\ "system" \in DOMAIN meta
      /\ lastBy["system"] = r => meta["system"] = metaW[r]
      /\ repos[r] = <<>> =>
           /\ resp[r].count = 0
           /\ writes[r] = <<>>
           /\ \A id \in DOMAIN lastBy : lastBy[id] = r => id = "system"

C10_Witness ==
  \E r \in Runs :
    /\ resp[r].success
    /\ repos[r] = <<>>
    /\ store = EmptyCol
    /\ lastBy["system"] = r
    /\ meta["system"].lastRefreshCount = 0

\* The open pull requests of the upstream, as <<repository name, number>>.
OpenPairs(g) ==
  UNION { {<<g.repos[i], g.pulls[g.repos[i]][k].number>> :
             k \in {j \in 1 .. Len(g.pulls[g.repos[i]]) : g.pulls[g.repos[i]][j].open}} :
          i \in 1 .. Len(g.repos) }

\* C11: two distinct (repository name, pull request number) pairs never
\* derive the same id, so no two pull requests share a document: the
\* records of one batch have pairwise distinct ids, the document under a
\* pull request's id holds that pull request's record and no other's, and a
\* batch applied in full leaves as many documents as it had records.
C11_IdsDistinct ==
  /\ \A p \in IdPairs : \A q \in IdPairs :
       p # q => MakeId(p[1], p[2]) # MakeId(q[1], q[2])
  /\ \A r \in Runs : \A i \in 1 .. Len(allPRs[r]) : \A j \in 1 .. Len(allPRs[r]) :
       i # j => allPRs[r][i].id # allPRs[r][j].id
  /\ \A p \in OpenPairs(gh) :
       MakeId(p[1], p[2]) \in DOMAIN store =>
         /\ store[MakeId(p[1], p[2])].repo = GITHUB_ORG \o "/" \o p[1]
         /\ store[MakeId(p[1], p[2])].url
              = "https://github.com/" \o GITHUB_ORG \o "/" \o p[1] \o "/pull/" \o ToString(p[2])
  /\ \A r \in Runs :
       resp[r].success => Cardinality(DOMAIN store) = Len(allPRs[r])

\* The pull requests web #11 and web1 #1, whose ids differ by the place of
\* the separator alone, both hold a document after a successful refresh.
C11_Witness ==
  /\ resp[1].success
  /\ OpenPairs(gh) = {<<"web", 11>>, <<"web1", 1>>}
  /\ DOMAIN store = {"web-11", "web1-1"}
  /\ store["web-11"].repo = GITHUB_ORG \o "/web"
  /\ store["web1-1"].repo = GITHUB_ORG \o "/web1"

====
